---- MODULE Spec2Model ----
(***************************************************************************)
(* Model of the bid coordination server of src/src/app.ts (the second,     *)
(* validated draft, lines 123-323).                                        *)
(*                                                                         *)
(* The server is one Node.js process: every event handler runs to          *)
(* completion on the single event-loop thread, and an async function runs  *)
(* synchronously up to its first await.  Each action below is therefore    *)
(* one handler, or the continuation of an async function after its await.  *)
(***************************************************************************)
EXTENDS Integers, Sequences, FiniteSets, TLC

VARIABLES
    currentBid,     \* app.ts:171
    history,        \* app.ts:172  sequence of [id, bid]
    currQuestion,   \* app.ts:173
    roundDetails,   \* app.ts:174  response of the last completed round fetch
    questions,      \* app.ts:175
    minBid,         \* app.ts:176
    fetches,        \* bodies of the got.get calls of initiateRound in flight
    allocs,         \* question ids of the got.put allocation calls in flight
    connected,      \* sockets whose 'connection' handler has run
    replayed,       \* sockets whose snapshot listener got its first snapshot
    sent,           \* the history last given to io.emit, empty before any
    running,        \* the process has not been ended by an uncaught error
    pushed          \* history variable of SpecPush: the round last pushed

vars == <<currentBid, history, currQuestion, roundDetails, questions, minBid,
          fetches, allocs, connected, replayed, sent, running, pushed>>

-----------------------------------------------------------------------------
(* Bounds of the model *)

MaxHistory == 2     \* bids are taken while history is shorter than this
MaxFetches == 1     \* round fetches in flight at once
MaxAllocs == 1      \* allocation calls in flight at once
MaxPushed == 2      \* round fetches in flight at once under SpecPush

(* Inputs *)

Sockets == {"s1", "s2"}
QuestionIDs == {"q1", "q2"}
Amounts == {102, 140, 150}

Question(id, allocated) == [id |-> id, allocated |-> allocated]

Body(qs, mb, service) == [questions |-> qs, minBid |-> mb, service |-> service]

\* The round configurations the bidding API serves (roundDetails.body).
Bodies ==
    { Body(<<Question("q1", FALSE), Question("q2", FALSE)>>, 100, TRUE),
      Body(<<Question("q1", FALSE), Question("q2", TRUE)>>, 100, TRUE),
      Body(<<Question("q1", FALSE), Question("q2", FALSE)>>, 100, FALSE),
      Body(<<Question("q2", FALSE)>>, 140, TRUE),
      Body(<<>>, 140, TRUE) }

-----------------------------------------------------------------------------
(* Values *)

\* `let roundDetails: any;` holds no response until the first fetch completes.
Undefined == [defined |-> FALSE, body |-> Body(<<>>, 0, FALSE)]

Response(body) == [defined |-> TRUE, body |-> body]

\* One emission of a handler: event name e, addressee to ("all" for io.emit),
\* the type of an 'invalid' message, the payload h of a 'history' message.
Emit(e, to, type, h) == [e |-> e, to |-> to, type |-> type, h |-> h]

Invalid(socket, type) == Emit("invalid", socket, type, <<>>)

Broadcast(h) == Emit("history", "all", "", h)


Uncaught == Emit("uncaughtException", "log", "", <<>>)

-----------------------------------------------------------------------------
(* The auction state the bid handler and changeQuestion work on *)

State(cb, h, cq) == [currentBid |-> cb, history |-> h, currQuestion |-> cq]

Globals == State(currentBid, history, currQuestion)

\* questions.filter((item) => item.id === id)
filter(qs, id) == SelectSeq(qs, LAMBDA item : item.id = id)

\* Reset without the assignment of app.ts:199.
ResetKeepBid(st, id) == State(st.currentBid, <<>>, id)

\* app.ts:198-200
Reset(st, id) == State(minBid, <<>>, id)

\* changeQuestion with the call of app.ts:216 issued before the reset and the
\* io.emit of app.ts:198-201.
changeQuestionPutFirst(st, socket, id) ==
    LET response == filter(questions, id)
    IN  IF Len(response) = 0
        THEN [st |-> st, out |-> <<Invalid(socket, "invalid")>>]
        ELSE LET st1 == Reset(st, id)
             IN  [st |-> st1,
                  out |-> <<Emit("allocate", id, "", <<>>), Broadcast(st1.history)>>]

\* changeQuestion up to its await (app.ts:192-216): the part that runs inside
\* the bid handler.  The rest of it (app.ts:220-225) is AllocateDone.
changeQuestion(st, socket, id) ==
    LET response == filter(questions, id)
    IN  IF Len(response) = 0
        THEN [st |-> st, out |-> <<Invalid(socket, "invalid")>>]
        ELSE LET st1 == Reset(st, id)
             IN  [st |-> st1,
                  out |-> <<Broadcast(st1.history), Emit("allocate", id, "", <<>>)>>]

\* The comparison of app.ts:274 with >= for >.
GreaterOrEqual(bid, cb) == bid >= cb

\* app.ts:274
Greater(bid, cb) == bid > cb

\* app.ts:276
BadDenominationOdd(bid) == bid % 2 # 0

BadDenomination(bid) == bid % 5 # 0

\* Accept without the assignment of app.ts:286.
AcceptKeepBid(st, socket, bid) ==
    LET h == Append(st.history, [id |-> socket, bid |-> bid])
    IN  [st |-> State(st.currentBid, h, st.currQuestion),
         out |-> <<Broadcast(h), Emit("alert", socket, "", <<>>)>>]

\* Accept with unshift for the push of app.ts:290.
AcceptUnshift(st, socket, bid) ==
    LET h == <<[id |-> socket, bid |-> bid]>> \o st.history
    IN  [st |-> State(bid, h, st.currQuestion),
         out |-> <<Broadcast(h), Emit("alert", socket, "", <<>>)>>]

\* Accept with the io.emit of app.ts:291 before the push of app.ts:290.
AcceptEmitFirst(st, socket, bid) ==
    LET h == Append(st.history, [id |-> socket, bid |-> bid])
    IN  [st |-> State(bid, h, st.currQuestion),
         out |-> <<Broadcast(st.history), Emit("alert", socket, "", <<>>)>>]

\* app.ts:286-294
Accept(st, socket, bid) ==
    LET h == Append(st.history, [id |-> socket, bid |-> bid])
    IN  [st |-> State(bid, h, st.currQuestion),
         out |-> <<Broadcast(h), Emit("alert", socket, "", <<>>)>>]

Reject(st, socket, type) == [st |-> st, out |-> <<Invalid(socket, type)>>]

\* Validate with currentBid assigned before the denomination check.
ValidateAssignFirst(st, socket, data) ==
    LET response == filter(questions, data.questionID)
    IN  IF Len(response) = 0 THEN Reject(st, socket, "questionID")
        ELSE IF response[1].allocated THEN Reject(st, socket, "allocated")
        ELSE IF Greater(data.bid, st.currentBid)
             THEN IF BadDenomination(data.bid)
                  THEN Reject(State(data.bid, st.history, st.currQuestion),
                              socket, "denomination")
                  ELSE Accept(st, socket, data.bid)
             ELSE Reject(st, socket, "minimum")

\* Validate with the denomination check before the comparison.
ValidateDenominationFirst(st, socket, data) ==
    LET response == filter(questions, data.questionID)
    IN  IF Len(response) = 0 THEN Reject(st, socket, "questionID")
        ELSE IF response[1].allocated THEN Reject(st, socket, "allocated")
        ELSE IF BadDenomination(data.bid)
             THEN Reject(st, socket, "denomination")
             ELSE IF Greater(data.bid, st.currentBid)
                  THEN Accept(st, socket, data.bid)
                  ELSE Reject(st, socket, "minimum")

\* app.ts:256-299, after the service check and the question change
Validate(st, socket, data) ==
    LET response == filter(questions, data.questionID)
    IN  IF Len(response) = 0 THEN Reject(st, socket, "questionID")
        ELSE IF response[1].allocated THEN Reject(st, socket, "allocated")
        ELSE IF Greater(data.bid, st.currentBid)
             THEN IF BadDenomination(data.bid)
                  THEN Reject(st, socket, "denomination")
                  ELSE Accept(st, socket, data.bid)
             ELSE Reject(st, socket, "minimum")

\* The check of app.ts:246 left out.
ServiceIgnored(rd) == FALSE

\* app.ts:246
ServiceDown(rd) == ~rd.body.service

\* socket.on('bid') (app.ts:244-300): the state and the emissions it ends with.
\* Reading roundDetails.body of an undefined roundDetails throws a TypeError,
\* which the process-level handler (app.ts:137-139) logs.
bid(socket, data) ==
    IF ~roundDetails.defined THEN [st |-> Globals, out |-> <<Uncaught>>]
    ELSE IF ServiceDown(roundDetails) THEN Reject(Globals, socket, "down")
    ELSE LET cq == IF data.questionID # currQuestion
                   THEN changeQuestion(Globals, socket, data.questionID)
                   ELSE [st |-> Globals, out |-> <<>>]
             v == Validate(cq.st, socket, data)
         IN  [st |-> v.st, out |-> cq.out \o v.out]

\* initiateRound after its await (app.ts:180-188): the globals it ends with.
\* With no question in the response, questions[0].id throws a TypeError and
\* the assignments after it are not reached.
initiateRound(body) ==
    LET thrown == Len(body.questions) = 0
    IN  [roundDetails |-> Response(body),
         questions |-> body.questions,
         minBid |-> body.minBid,
         currQuestion |-> IF thrown THEN currQuestion ELSE body.questions[1].id,
         currentBid |-> IF thrown THEN currentBid ELSE body.minBid,
         out |-> IF thrown THEN <<Uncaught>> ELSE <<>>,
         thrown |-> thrown]

-----------------------------------------------------------------------------
(* Calls in flight: a bag as a function from the call's content to a count *)

RECURSIVE Sum(_, _)
Sum(f, S) == IF S = {} THEN 0
             ELSE LET x == CHOOSE y \in S : TRUE IN f[x] + Sum(f, S \ {x})

InFlight(bag) == Sum(bag, DOMAIN bag)

Add(bag, x) == [bag EXCEPT ![x] = @ + 1]

Remove(bag, x) == [bag EXCEPT ![x] = @ - 1]

Has(o, e) == \E i \in 1..Len(o) : o[i].e = e

-----------------------------------------------------------------------------
(* What a handler leaves behind besides the globals *)

\* The 'history' messages among the emissions of a handler.
Broadcasts(o) == SelectSeq(o, LAMBDA m : m.e = "history" /\ m.to = "all")

\* The history the connections were last sent once a handler has emitted o.
Sent(o) ==
    LET b == Broadcasts(o)
    IN  IF Len(b) = 0 THEN sent ELSE b[Len(b)].h

\* No handler of uncaught errors: the process ends.
uncaughtExceptionExit(o) == FALSE

\* process.on('uncaughtException') (app.ts:137-139) logs the error, so the
\* process goes on after a handler has thrown.
uncaughtException(o) == TRUE

\* A failed allocation call undoes what was bid on the question.
allocateSettledRevert(st, id, ok) ==
    IF ok THEN st ELSE State(minBid, <<>>, st.currQuestion)

\* The allocation call of changeQuestion settles (app.ts:215-225): the catch
\* block and the last line only log.
allocateSettled(st, id, ok) == st

-----------------------------------------------------------------------------
(* The state after construction (app.ts:170-176): nothing fetched, nobody  *)
(* connected.                                                              *)

Init ==
    /\ currentBid = 0
    /\ history = <<>>
    /\ currQuestion = ""
    /\ roundDetails = Undefined
    /\ questions = <<>>
    /\ minBid = 0
    /\ fetches = [b \in Bodies |-> 0]
    /\ allocs = [q \in QuestionIDs |-> 0]
    /\ connected = {}
    /\ replayed = {}
    /\ sent = <<>>
    /\ running = TRUE
    /\ pushed = Undefined

\* What the snapshot listener of one connection emits (app.ts:236-241).
Forward(socket) ==
    <<Emit("message", socket, "", <<>>), Emit("minimum", socket, "", <<>>),
      Broadcast(history)>>

SocketOrder == <<"s1", "s2">>

\* What the snapshot listeners that have had their first snapshot emit when
\* the round document changes.
RECURSIVE ForwardAll(_)
ForwardAll(n) ==
    IF n = 0 THEN <<>>
    ELSE ForwardAll(n - 1) \o
         (IF SocketOrder[n] \in replayed THEN Forward(SocketOrder[n]) ELSE <<>>)

\* The round document changed: docRef.onSnapshot(() => initiateRound())
\* (app.ts:230) starts a fetch of the round, which will answer body, and the
\* listener of every connection forwards the round data (app.ts:236-241).
\* At most max fetches are in flight.
onSnapshot(body, max) ==
    /\ running
    /\ InFlight(fetches) < max
    /\ fetches' = Add(fetches, body)
    /\ sent' = Sent(ForwardAll(Len(SocketOrder)))
    /\ UNCHANGED <<currentBid, history, currQuestion, roundDetails, questions,
                   minBid, allocs, connected, replayed, running>>

Snapshot(body) == onSnapshot(body, MaxFetches) /\ UNCHANGED pushed

\* The same, with the round pushed recorded.
Push(body) == onSnapshot(body, MaxPushed) /\ pushed' = Response(body)

\* The fetch of initiateRound answers (app.ts:180-188).
InitiateRoundDone(body) ==
    /\ running
    /\ fetches[body] > 0
    /\ fetches' = Remove(fetches, body)
    /\ \E r \in {initiateRound(body)} :
          /\ roundDetails' = r.roundDetails
          /\ questions' = r.questions
          /\ minBid' = r.minBid
          /\ currQuestion' = r.currQuestion
          /\ currentBid' = r.currentBid
          /\ sent' = Sent(r.out)
          /\ running' = (r.thrown => uncaughtException(r.out))
    /\ UNCHANGED <<history, allocs, connected, replayed, pushed>>

\* The fetch of initiateRound fails: the await throws and nothing is assigned.
InitiateRoundFailed(body) ==
    /\ running
    /\ fetches[body] > 0
    /\ fetches' = Remove(fetches, body)
    /\ running' = uncaughtException(<<Uncaught>>)
    /\ UNCHANGED <<currentBid, history, currQuestion, roundDetails, questions,
                   minBid, allocs, connected, replayed, sent, pushed>>

\* io.on('connection') (app.ts:233-236): the handlers of the socket and its
\* snapshot listener are registered; the socket receives what io.emit sends
\* from now on.
Connection(socket) ==
    /\ running
    /\ socket \notin connected
    /\ connected' = connected \cup {socket}
    /\ UNCHANGED <<currentBid, history, currQuestion, roundDetails, questions,
                   minBid, fetches, allocs, replayed, sent, running, pushed>>

\* The snapshot listener of a connection is called with its first snapshot
\* (app.ts:236-241), which the round document store delivers after the
\* connection handler has returned: it forwards the round data.
Replay(socket) ==
    /\ running
    /\ socket \in connected \ replayed
    /\ replayed' = replayed \cup {socket}
    /\ sent' = Sent(Forward(socket))
    /\ UNCHANGED <<currentBid, history, currQuestion, roundDetails, questions,
                   minBid, fetches, allocs, connected, running, pushed>>

\* socket.on('bid') (app.ts:244-300), with the synchronous part of
\* changeQuestion it calls; the allocation call changeQuestion issues
\* (app.ts:216) stays in flight.
Bid(socket, data) ==
    /\ running
    /\ socket \in connected
    /\ UNCHANGED <<roundDetails, questions, minBid, fetches, connected, replayed,
                   pushed>>
    /\ \E r \in {bid(socket, data)} :
          \E allocated \in {Has(r.out, "allocate")} :
             /\ Len(r.st.history) <= MaxHistory
             /\ allocated => InFlight(allocs) < MaxAllocs
             /\ currentBid' = r.st.currentBid
             /\ history' = r.st.history
             /\ currQuestion' = r.st.currQuestion
             /\ allocs' = IF allocated THEN Add(allocs, data.questionID)
                          ELSE allocs
             /\ sent' = Sent(r.out)
             /\ running' = (Has(r.out, "uncaughtException")
                               => uncaughtException(r.out))

\* The allocation call of changeQuestion answers or fails (app.ts:215-225):
\* either way the outcome is logged and nothing else happens.
AllocateDone(id, ok) ==
    /\ running
    /\ allocs[id] > 0
    /\ allocs' = Remove(allocs, id)
    /\ LET st == allocateSettled(Globals, id, ok)
       IN  /\ currentBid' = st.currentBid
           /\ history' = st.history
           /\ currQuestion' = st.currQuestion
    /\ UNCHANGED <<roundDetails, questions, minBid, fetches, connected, replayed,
                   sent, running, pushed>>

\* The handlers other than the one of the round document, every fetch of
\* initiateRound answering.
Handlers ==
    \/ \E body \in Bodies : InitiateRoundDone(body)
    \/ \E socket \in Sockets : Connection(socket)
    \/ \E socket \in Sockets : Replay(socket)
    \/ \E socket \in Sockets, questionID \in QuestionIDs, amount \in Amounts :
          Bid(socket, [questionID |-> questionID, bid |-> amount])
    \/ \E id \in QuestionIDs, ok \in BOOLEAN : AllocateDone(id, ok)

Next ==
    \/ \E body \in Bodies : Snapshot(body)
    \/ \E body \in Bodies : InitiateRoundFailed(body)
    \/ Handlers

Spec == Init /\ [][Next]_vars

\* The server with the round last pushed recorded in pushed, up to MaxPushed
\* round fetches in flight and every fetch answering.
NextPush ==
    \/ \E body \in Bodies : Push(body)
    \/ Handlers

SpecPush == Init /\ [][NextPush]_vars

-----------------------------------------------------------------------------
(* Reading the decision of the bid handler off what it emitted *)

Datas == [questionID : QuestionIDs, bid : Amounts]

Record(socket, amount) == [id |-> socket, bid |-> amount]

\* "accept" for the 'alert' acknowledgement, "uncaught" for a thrown error,
\* else the type of the last 'invalid' message sent to the bidder.
Outcome(r) ==
    IF Has(r.out, "alert") THEN "accept"
    ELSE IF Has(r.out, "uncaughtException") THEN "uncaught"
    ELSE r.out[Len(r.out)].type

Transitioned(r) == Has(r.out, "allocate")

Rejections == {"down", "questionID", "allocated", "minimum", "denomination"}

Loaded == roundDetails.defined

Service == roundDetails.body.service

Ids(qs) == {qs[i].id : i \in 1..Len(qs)}

Known(id) == id \in Ids(roundDetails.body.questions)

Allocated(id) ==
    \E i \in 1..Len(roundDetails.body.questions) :
        /\ roundDetails.body.questions[i].id = id
        /\ roundDetails.body.questions[i].allocated

\* A bid on the active question that the service, the question list and the
\* allocation flag let through to the comparison with currentBid.
Open(id) == Loaded /\ Service /\ currQuestion = id /\ Known(id) /\ ~Allocated(id)

-----------------------------------------------------------------------------
\* C1: in every step that appends a bid to history, the appended amount is
\* strictly greater than the value currentBid has when the bid is appended
\* (minBid if the same handler has just changed the question, else the
\* currentBid the handler started with), and the step ends with currentBid
\* equal to that amount: comparison and assignment are one step.
C1_CheckAndMutate ==
    [][(history' # history /\ history' # <<>>) =>
          LET last == history'[Len(history')]
              compared == IF currQuestion' # currQuestion THEN minBid ELSE currentBid
          IN  /\ last.bid > compared
              /\ currentBid' = last.bid]_vars

\* Two bids were accepted one after the other on one question.
C1_Witness ==
    /\ Len(history) = 2
    /\ currentBid = history[2].bid
    /\ history[2].bid > history[1].bid

-----------------------------------------------------------------------------
\* C2 as claimed: with currentBid = minBid = 100 and the bids 150 and 140 of
\* two connections on the open active question handled one after the other,
\* in either order the first is accepted and the second is rejected as below
\* the minimum.
C2Other(amount) == IF amount = 150 THEN 140 ELSE 150

C2Case(s1, s2, q, amount) ==
    /\ s1 # s2 /\ s2 \in connected
    /\ Open(q)
    /\ Bid(s1, [questionID |-> q, bid |-> amount])

C2_Original ==
    [][(currentBid = 100 /\ minBid = 100) =>
          \A s1 \in Sockets, s2 \in Sockets, q \in QuestionIDs, amount \in {140, 150} :
             C2Case(s1, s2, q, amount) =>
                 /\ Outcome(bid(s1, [questionID |-> q, bid |-> amount])) = "accept"
                 /\ Outcome(bid(s2, [questionID |-> q, bid |-> C2Other(amount)]))'
                       = "minimum"]_vars

\* C2 as amended: if 150 is handled first it is accepted and 140 is then
\* rejected as below the minimum, leaving the state as it was; if 140 is
\* handled first both are accepted, 140 then 150, and currentBid ends at 150.
C2_Amended ==
    [][(currentBid = 100 /\ minBid = 100) =>
          \A s1 \in Sockets, s2 \in Sockets, q \in QuestionIDs, amount \in {140, 150} :
             C2Case(s1, s2, q, amount) =>
                 LET second == bid(s2, [questionID |-> q, bid |-> C2Other(amount)])'
                 IN  /\ Outcome(bid(s1, [questionID |-> q, bid |-> amount])) = "accept"
                     /\ currentBid' = amount
                     /\ history' = Append(history, Record(s1, amount))
                     /\ IF amount = 150
                        THEN /\ Outcome(second) = "minimum"
                             /\ second.st = State(150, history', q)
                        ELSE /\ Outcome(second) = "accept"
                             /\ second.st =
                                   State(150, Append(history', Record(s2, 150)), q)]_vars

\* Both bids were accepted, 140 first, against a floor of 100.
C2_Witness ==
    /\ minBid = 100 /\ currentBid = 150
    /\ Len(history) = 2
    /\ history[1].bid = 140 /\ history[2].bid = 150
    /\ history[1].id # history[2].id

-----------------------------------------------------------------------------
\* C3 as claimed: a bid that ends in a rejection leaves currQuestion,
\* currentBid and history as they were.
C3_Original ==
    \A s \in connected, d \in Datas :
        Outcome(bid(s, d)) \in Rejections => bid(s, d).st = Globals

\* C3 as amended: a bid rejected because the service is disabled or the
\* question unknown leaves the state as it was, and so does a bid on the
\* active question rejected as allocated, below the minimum or of a bad
\* denomination; a bid so rejected that names another known question leaves
\* the state reset to that question (currQuestion the id, currentBid minBid,
\* history empty).
C3_Amended ==
    \A s \in connected, d \in Datas :
        \E r \in {bid(s, d)} :
            Outcome(r) \in Rejections =>
                r.st = IF /\ Outcome(r) \in {"allocated", "minimum", "denomination"}
                          /\ d.questionID # currQuestion
                       THEN State(minBid, <<>>, d.questionID)
                       ELSE Globals

\* A rejected bid has changed the question (its allocation call is in flight,
\* nothing was accepted since) and a bid on it is about to be rejected.
C3_Witness ==
    /\ Open(currQuestion) /\ allocs[currQuestion] > 0
    /\ history = <<>> /\ currentBid = minBid
    /\ \E s \in connected, d \in Datas :
          d.questionID = currQuestion /\ Outcome(bid(s, d)) \in Rejections

-----------------------------------------------------------------------------
\* The validator of the specification: the rules in order, first match wins.
Reference(d) ==
    IF ~Service THEN "down"
    ELSE IF ~Known(d.questionID) THEN "questionID"
    ELSE IF Allocated(d.questionID) THEN "allocated"
    ELSE LET cb == IF d.questionID # currQuestion
                   THEN roundDetails.body.minBid ELSE currentBid
         IN  IF d.bid <= cb THEN "minimum"
             ELSE IF d.bid % 5 # 0 THEN "denomination"
             ELSE "accept"

\* C4: once a round is loaded, in every reachable state and for every bid the
\* decision of the bid handler is the decision of the reference validator,
\* which compares with minBid when the bid changes the question.
C4_ReferenceValidator ==
    \A s \in connected, d \in Datas :
        Loaded => Outcome(bid(s, d)) = Reference(d)

\* After an accepted bid, a bid that is too small and not a multiple of 5 is
\* about to be rejected as too small, and a bid that changes the question is
\* about to be rejected for its denomination.
C4_Witness ==
    /\ Loaded /\ history # <<>>
    /\ \E s \in connected, d \in Datas : Reference(d) = "minimum" /\ d.bid % 5 # 0
    /\ \E s \in connected, d \in Datas :
          Reference(d) = "denomination" /\ d.questionID # currQuestion

-----------------------------------------------------------------------------
\* What the handler of a bid that names a known question other than the
\* active one ends with.
C5Handler ==
    (Loaded /\ Service) =>
        \A s \in connected, d \in Datas :
            (d.questionID # currQuestion /\ Known(d.questionID)) =>
                \E r \in {bid(s, d)} :
                    /\ r.st.currQuestion = d.questionID
                    /\ \/ r.st.currentBid = minBid /\ r.st.history = <<>>
                       \/ /\ d.bid > minBid
                          /\ r.st.currentBid = d.bid
                          /\ r.st.history = <<Record(s, d.bid)>>

\* C5: a bid handled while the service is enabled that names a known question
\* other than the active one ends, in the one step of its handler, with
\* currQuestion the new id and either currentBid = minBid and history empty
\* (the bid was rejected) or history holding that bid alone, its amount
\* greater than minBid (the bid was compared with the reset currentBid); no
\* step of a bid handler that changes currQuestion ends otherwise.
C5_Transition ==
    /\ []C5Handler
    /\ [][(currQuestion' # currQuestion /\ UNCHANGED fetches) =>
             /\ Loaded /\ Service /\ Known(currQuestion')
             /\ \/ currentBid' = minBid /\ history' = <<>>
                \/ /\ Len(history') = 1
                   /\ history'[1].bid > minBid
                   /\ currentBid' = history'[1].bid
             /\ \E s \in connected, amount \in Amounts :
                   Bid(s, [questionID |-> currQuestion', bid |-> amount])]_vars

\* A bid of 140 has changed the question (its allocation call is in flight)
\* and was accepted against the floor of 100: history holds it alone.
C5_Witness ==
    /\ Loaded /\ currQuestion \in QuestionIDs /\ allocs[currQuestion] > 0
    /\ Len(history) = 1 /\ currentBid = history[1].bid
    /\ currentBid = 140 /\ minBid = 100

-----------------------------------------------------------------------------
\* C6: the bid handler ends with the bid and the bidder's id appended at the
\* end of history exactly when it accepts the bid, after clearing history if
\* the bid changed the question, and changes history in no other way; and
\* every step that changes history is a step of the bid handler: of the bid
\* history ends with, or of a rejected bid that changed the question.
C6Handler ==
    \A s \in connected, d \in Datas :
        \E r \in {bid(s, d)} :
            \E base \in {IF Transitioned(r) THEN <<>> ELSE history} :
                r.st.history = IF Outcome(r) = "accept"
                               THEN Append(base, Record(s, d.bid))
                               ELSE base

C6_History ==
    /\ []C6Handler
    /\ [][history' # history =>
             IF history' = <<>>
             THEN \E s \in connected, amount \in Amounts :
                     Bid(s, [questionID |-> currQuestion', bid |-> amount])
             ELSE Bid(history'[Len(history')].id,
                      [questionID |-> currQuestion',
                       bid |-> history'[Len(history')].bid])]_vars

\* Two connections had a bid accepted each.
C6_Witness ==
    /\ Len(history) = 2
    /\ history[1].id # history[2].id
    /\ history[1].bid < history[2].bid

-----------------------------------------------------------------------------
\* C7: if history is not empty, currentBid is greater than minBid.
C7_NonEmptyAboveFloor == history # <<>> => currentBid > minBid

-----------------------------------------------------------------------------
\* C8: the amounts in history are strictly increasing.
C8_Increasing ==
    \A i \in 1..Len(history), j \in 1..Len(history) :
        i < j => history[i].bid < history[j].bid

-----------------------------------------------------------------------------
\* C9: currentBid is at least the minBid of the round the server holds.
C9_AtLeastFloor == currentBid >= roundDetails.body.minBid

-----------------------------------------------------------------------------
\* C10: once a round initialisation has completed (currQuestion is set),
\* currQuestion is the id of a question of the round the server holds.
C10_ActiveIsKnown == (Loaded /\ currQuestion # "") => Known(currQuestion)

-----------------------------------------------------------------------------
\* The currentBid a bid is compared with: minBid if the bid changes the
\* question, else currentBid.
Compared(d) == IF d.questionID # currQuestion THEN minBid ELSE currentBid

\* C11 as claimed: a bid that gets as far as the comparison with currentBid
\* (round loaded, service enabled, question known and not allocated) is
\* rejected for its denomination if and only if its amount is not a multiple
\* of 5, also when the amount is not greater than currentBid.
C11_Original ==
    \A s \in connected, d \in Datas :
        (Loaded /\ Service /\ Known(d.questionID) /\ ~Allocated(d.questionID)) =>
            (Outcome(bid(s, d)) = "denomination" <=> d.bid % 5 # 0)

\* The bids rejected for their denomination, and what happens to an amount
\* that is not a multiple of 5 and not greater than the currentBid it is
\* compared with.
C11Decision ==
    \A s \in connected, d \in Datas :
        \E r \in {bid(s, d)} :
            /\ Outcome(r) = "denomination" <=>
                  /\ d.bid % 5 # 0
                  /\ Loaded /\ Service
                  /\ Known(d.questionID) /\ ~Allocated(d.questionID)
                  /\ d.bid > Compared(d)
            /\ (/\ d.bid % 5 # 0
                /\ Loaded /\ Service
                /\ Known(d.questionID) /\ ~Allocated(d.questionID)
                /\ d.bid <= Compared(d)) => Outcome(r) = "minimum"

\* C11 as amended: in every state a bid is rejected for its denomination if
\* and only if its amount is not a multiple of 5 and the round is loaded, the
\* service enabled, the question known and not allocated and the amount
\* greater than the currentBid it is compared with; an amount that is not a
\* multiple of 5 and not greater than that currentBid is rejected as below
\* the minimum.
C11_Amended == []C11Decision

\* After a bid of 150 was accepted, a bid of 102 on the active question is
\* about to be rejected as below the minimum and a bid of 102 that changes
\* the question is about to be rejected for its denomination.
C11_Witness ==
    /\ Open(currQuestion) /\ currentBid = 150 /\ history # <<>>
    /\ \E s \in connected :
          /\ Outcome(bid(s, [questionID |-> currQuestion, bid |-> 102])) = "minimum"
          /\ \E q \in QuestionIDs \ {currQuestion} :
                Outcome(bid(s, [questionID |-> q, bid |-> 102])) = "denomination"

-----------------------------------------------------------------------------
C12Down ==
    (Loaded /\ ~Service) =>
        \A s \in connected, d \in Datas :
            \E r \in {bid(s, d)} :
                /\ Outcome(r) = "down"
                /\ r.st = Globals
                /\ ~Transitioned(r)
                /\ r.out = <<Invalid(s, "down")>>

-----------------------------------------------------------------------------
\* C13: while a connection has not had its replay (its snapshot listener has
\* not been called yet), no bid handled broadcasts a history: the first
\* 'history' message a connection receives is its replay.
C13_ReplayFirst ==
    [][\A o \in connected \ replayed, s \in Sockets, d \in Datas :
          Bid(s, d) => ~Has(bid(s, d).out, "history")]_vars

-----------------------------------------------------------------------------
\* The number of changes of the auction state a bid handler has made: one for
\* a question change, one for an accepted bid.
Mutations(r) ==
    (IF Transitioned(r) THEN 1 ELSE 0) + (IF Outcome(r) = "accept" THEN 1 ELSE 0)

\* C14: a bid handler broadcasts one history for each change it makes, the
\* last one the history it ends with; an initiateRound that runs to its end
\* and changes the round held, currQuestion or currentBid broadcasts one
\* history; the replay of a connection sends no history to all connections.
C14_OneBroadcast ==
    [][/\ \A s \in Sockets, d \in Datas :
             Bid(s, d) =>
                \E r \in {bid(s, d)} :
                    /\ Len(Broadcasts(r.out)) = Mutations(r)
                    /\ Mutations(r) > 0 =>
                          Broadcasts(r.out)[Mutations(r)].h = history'
       /\ \A body \in Bodies :
             (/\ ~initiateRound(body).thrown
              /\ InitiateRoundDone(body)
              /\ <<roundDetails, currQuestion, currentBid>>'
                    # <<roundDetails, currQuestion, currentBid>>) =>
                 Len(Broadcasts(initiateRound(body).out)) = 1
       /\ \A s \in Sockets :
             Replay(s) => Len(Broadcasts(Forward(s))) = 0]_vars

-----------------------------------------------------------------------------
\* Every handler that changes history broadcasts, and the last history a
\* handler broadcasts is the history it ends with.
C15Handler ==
    \A s \in connected, d \in Datas :
        \E r \in {bid(s, d)} :
            \E b \in {Broadcasts(r.out)} :
                /\ r.st.history # history => Len(b) > 0
                /\ Len(b) > 0 => b[Len(b)].h = r.st.history
                /\ \A i \in 1..Len(b) :
                      b[i].h \in {<<>>, r.st.history}

\* C15: each broadcast carries history as it is when it is sent: the history
\* the connections were last sent is the current history in every state
\* (both empty before the first broadcast), so the histories sent follow the
\* order of the changes and no older one is sent after a newer one.
C15_SentIsCurrent == [](sent = history /\ C15Handler)

\* Two accepted bids have been broadcast to a connection that had its replay.
C15_Witness ==
    /\ Len(sent) = 2
    /\ sent[2].bid > sent[1].bid
    /\ replayed # {}

-----------------------------------------------------------------------------
\* C16: before the first round is stored the process is running and every
\* bid handled is not accepted, leaves currQuestion, currentBid and history
\* as they were, changes no question, issues no allocation call and
\* broadcasts nothing; the error it throws is logged by the process-level
\* handler and the process goes on running.
C16_BeforeLoad ==
    /\ running
    /\ ~Loaded =>
          \A s \in connected, d \in Datas :
              \E r \in {bid(s, d)} :
                  /\ Outcome(r) = "uncaught"
                  /\ r.st = Globals
                  /\ ~Transitioned(r)
                  /\ Len(Broadcasts(r.out)) = 0
                  /\ uncaughtException(r.out)

\* A connection can bid while the first fetch of the round is in flight.
C16_Witness ==
    /\ ~Loaded /\ running
    /\ InFlight(fetches) > 0
    /\ \E s \in connected, d \in Datas : Outcome(bid(s, d)) = "uncaught"

-----------------------------------------------------------------------------
\* While an allocation call is in flight, a bid on the open active question
\* that is a multiple of 5 greater than currentBid is accepted.
C17InFlight ==
    (InFlight(allocs) > 0 /\ Open(currQuestion)) =>
        \A s \in connected, d \in Datas :
            (d.questionID = currQuestion /\ d.bid > currentBid /\ d.bid % 5 = 0) =>
                \E r \in {bid(s, d)} :
                    /\ Outcome(r) = "accept"
                    /\ r.st = State(d.bid, Append(history, Record(s, d.bid)),
                                    currQuestion)

\* C17: an allocation call that answers or fails leaves currQuestion,
\* currentBid, history and the round held as they were, so what was accepted
\* during the call is still in history; while a call is in flight bids are
\* validated and accepted.
C17_AllocationFrame ==
    /\ []C17InFlight
    /\ [][\A id \in QuestionIDs, ok \in BOOLEAN :
             AllocateDone(id, ok) =>
                UNCHANGED <<currQuestion, currentBid, history, questions,
                            roundDetails, minBid>>]_vars

\* Two bids were accepted since the question change whose allocation call is
\* still in flight.
C17_Witness ==
    /\ currQuestion \in QuestionIDs /\ allocs[currQuestion] > 0
    /\ Len(history) = 2

-----------------------------------------------------------------------------
\* The places of the allocation calls among the emissions of a handler.
Calls(o) == {i \in 1..Len(o) : o[i].e = "allocate"}

\* What a bid handler issues: one allocation call, for the question named,
\* after the reset to it and the broadcast of the emptied history, exactly
\* when the bid names a question of the round held other than the active
\* one (so not when it names the active one); a bid naming a question the
\* round does not hold changes nothing.
C18Handler ==
    \A s \in connected, d \in Datas :
        \E r \in {bid(s, d)} :
            /\ Calls(r.out) # {} <=>
                  /\ Loaded /\ Service
                  /\ d.questionID # currQuestion
                  /\ Known(d.questionID)
            /\ \A i \in Calls(r.out) :
                  /\ Calls(r.out) = {i}
                  /\ r.out[i].to = d.questionID
                  /\ i > 1 /\ r.out[i - 1] = Broadcast(<<>>)
                  /\ r.st.currQuestion = d.questionID
            /\ (Loaded /\ ~Known(d.questionID)) =>
                  r.st = Globals /\ Calls(r.out) = {}

\* C18: an allocation call is issued after the reset to the question and its
\* broadcast, once for each question change a bid makes and only for a
\* question of the round held; a bid naming an unknown question issues no
\* call and changes nothing; after a bid has changed the question, a further
\* bid naming that question issues no call.
C18_AllocationCall ==
    /\ []C18Handler
    /\ [][/\ \A q \in QuestionIDs :
                allocs'[q] > allocs[q] =>
                   /\ allocs' = Add(allocs, q)
                   /\ currQuestion # q /\ currQuestion' = q
                   /\ Known(q)
                   /\ \E s \in connected, amount \in Amounts :
                         Bid(s, [questionID |-> q, bid |-> amount])
          /\ currQuestion' # currQuestion =>
                \/ allocs' = Add(allocs, currQuestion')
                \/ \E body \in Bodies : InitiateRoundDone(body)]_vars

\* A bid has changed the question and was accepted, its one allocation call
\* is in flight, and further bids on the question issue no call.
C18_Witness ==
    /\ Open(currQuestion) /\ allocs[currQuestion] = 1
    /\ Len(history) = 1
    /\ \E s \in connected, d \in Datas :
          d.questionID = currQuestion /\ Calls(bid(s, d).out) = {}

-----------------------------------------------------------------------------
\* C19: once no fetch of the round is in flight, every fetch having answered,
\* the round held (questions, minBid, service) is the round last pushed.
C19_LastPushHeld ==
    (pushed.defined /\ InFlight(fetches) = 0) =>
        /\ roundDetails = pushed
        /\ questions = pushed.body.questions
        /\ minBid = pushed.body.minBid

-----------------------------------------------------------------------------
\* C20: on an open active question with currentBid = minBid, an empty
\* history and minBid a multiple of 5, a bid of minBid is accepted.
C20_FloorAdmissible ==
    \A s \in connected :
        (/\ Open(currQuestion)
         /\ currentBid = minBid /\ history = <<>>
         /\ minBid % 5 = 0 /\ minBid \in Amounts) =>
            Outcome(bid(s, [questionID |-> currQuestion, bid |-> minBid])) = "accept"

====
